---- MODULE Spec2Model ----
(***************************************************************************)
(* A model of the two orchestration engines of the repository:             *)
(*   - RascalRunner.run          (src/rascalrunner/app.py)                  *)
(*   - GitLabRunner.run_operation (src/gitlabrunner.py, gitlab_wrapper.py)  *)
(* Each remote platform, the local filesystem and the git client are the   *)
(* environment: what they answer is an input chosen with \E.               *)
(***************************************************************************)
EXTENDS Integers, Sequences, FiniteSets, TLC

(***************************************************************************)
(* Bounds of the model.                                                    *)
(***************************************************************************)
\* the platform holds at most this many runs for the ephemeral branch
MaxRuns == 2
\* the completion-poll counter saturates here (the loop itself is unbounded)
MaxPolls == 2
\* at most this many deployment records reference the ephemeral branch
MaxDeployments == 2
\* run_operation is called at most this many times on one GitLabRunner
MaxOps == 2
\* _remove_remote_branch is applied at most this many times on its own
MaxRemovals == 3
\* run_reconnaissance is called at most this many times on one GitLabRecon
MaxRecons == 2

(***************************************************************************)
(* RascalRunner: inputs.                                                   *)
(***************************************************************************)
\* Shapes of a token string: its prefix, the length of what follows and
\* whether what follows is alphanumeric only.
Tokens ==
    { [prefix |-> "ghp_", bodyLen |-> 36, alnum |-> TRUE],
      [prefix |-> "gho_", bodyLen |-> 36, alnum |-> TRUE],
      [prefix |-> "ghp_", bodyLen |-> 35, alnum |-> FALSE] }

\* the token setter's pattern ^ghp_[a-zA-Z0-9]{36}$
TokenMatches(t) ==
    /\ t.prefix = "ghp_"
    /\ t.bodyLen = 36
    /\ t.alnum

\* OAuth scopes a credential may carry
Scopes == {"repo", "workflow"}

\* The payload file: its base name and what open()/yaml.safe_load make of it.
PayloadNames == {"evil.yml", "ci.yml"}
PayloadKinds == {"valid", "invalid_yaml", "unreadable"}

\* the workflow setter: open() then yaml.safe_load()
WorkflowAccepted(p) == p.kind = "valid"

\* files a cloned repository may hold in .github/workflows
WorkflowFiles == {"ci.yml", "build.yml"}

\* the ephemeral branch name lint-testing-<5 random letters>
BranchNames == {"lint-testing-aaaaa", "lint-testing-bbbbb"}
OtherBranches == {"main", "dev"}

RunStatuses == {"queued", "in_progress", "completed"}
\* `run` is None
NoRun == [id |-> 0, status |-> "none"]

\* entries of a run's log archive: <ordinal>_<job>.<ext>
LogEntries ==
    { [ord |-> 0, job |-> "build", ext |-> "txt"],
      [ord |-> 0, job |-> "lint", ext |-> "txt"],
      [ord |-> 1, job |-> "test", ext |-> "txt"],
      [ord |-> 0, job |-> "meta", ext |-> "json"] }
\* archives: the entries in enumeration order
Archives == {<<>>} \cup {<<a>> : a \in LogEntries}
               \cup {<<a, b>> : a \in LogEntries, b \in LogEntries}

\* effects that change the remote repository or the local filesystem
Mutating == {"mkdtemp", "clone", "push_branch", "remove_branch", "delete_run",
             "deployment_inactive", "deployment_delete", "write_log"}
\* effects that go over the network
Network == {"get_rate_limit", "clone", "push_branch", "remove_branch", "list_runs",
            "download_logs", "delete_run", "get_deployments",
            "deployment_inactive", "deployment_delete", "delete_no_answer"}

Range(s) == {s[i] : i \in DOMAIN s}
Min(a, b) == IF a < b THEN a ELSE b

VARIABLES
    \* ---- RascalRunner object and the locals of run()
    pc,            \* position in RascalRunner.run
    token,         \* self._token
    oauth_scopes,  \* scopes granted to the credential (gh.oauth_scopes)
    workflow,      \* self._workflow: [name, kind]
    branch_name,   \* self._branch_name
    tmp_dir,       \* self._tmp_dir: "none", "exists", "removed"
    priorFiles,    \* files .github/workflows held in the clone (ghost)
    workTree,      \* files in .github/workflows of the working tree
    index,         \* files of .github/workflows in the git index
    run,           \* the local variable `run` of _wait_for_workflow
    discovered,    \* the run as found by the outer loop (ghost), NoRun before
    completionPolls, \* inner-loop polls made, saturating at MaxPolls (ghost)
    polledEmpty,   \* has the outer loop polled and been told of no run (ghost)
    pending,       \* deployment records still to process in _delete_deployments
    logFiles,      \* archive entries written to local files by _download_run_logs
    calls,         \* the effects performed so far, in order
    \* ---- the GitHub side
    remoteRefs,    \* branches of the remote repository
    pushedTree,    \* .github/workflows of the pushed branch ({} before the push)
    runs,          \* runs the platform lists for the branch, newest first
    \* ---- _remove_remote_branch applied on its own
    removals,      \* invocations made
    raised,        \* did the last invocation raise
    prevRefs,      \* remoteRefs before the last invocation
    answered,      \* did the remote answer the last invocation's push
    \* ---- _download_run_logs applied to a given archive
    fetched,       \* did the GET of the log archive return one
    lastArchive,   \* the archive it returned (<<>> before)
    \* ---- GitLabRunner object and the locals of run_operation
    gl_pc,         \* position in GitLabRunner.run_operation ("idle" between calls)
    target,        \* argument target, a string as its sequence of characters
    pipeline_file, \* argument pipeline_file: what open()/yaml.safe_load make of it
    cleanup,       \* argument cleanup
    operation_id,  \* operation_id (the n-th call draws the n-th identifier)
    project_id,    \* self.project_id (<<>> is None)
    temp_branch,   \* self.temp_branch: the operation it was named for (0 is None)
    error,         \* the step whose exception `e` the handler caught
    result,        \* the dict run_operation returned last
    gl_calls,      \* what this call of run_operation has done so far, in order
    \* ---- GitLabRecon object
    recons,        \* calls of run_reconnaissance made so far
    recon_projects, \* self.projects
    recon_targets, \* self.targets, each entry by its "id"
    returned,      \* how the last call ended: "none" before the first call
    report         \* the dict the last call returned

rvars == <<pc, token, oauth_scopes, workflow, branch_name, tmp_dir, priorFiles,
           workTree, index, run, discovered, completionPolls, polledEmpty, pending,
           logFiles, calls, remoteRefs, pushedTree, runs>>
bvars == <<removals, raised, prevRefs, answered, fetched, lastArchive>>
gvars == <<gl_pc, target, pipeline_file, cleanup, operation_id, project_id,
           temp_branch, error, result, gl_calls>>
nvars == <<recons, recon_projects, recon_targets, returned, report>>
vars == <<rvars, bvars, gvars, nvars>>

(***************************************************************************)
(* RascalRunner(target, workflow, token): __init__ stores its arguments    *)
(* in the private fields directly; the validating setters are not run.     *)
(***************************************************************************)
InitRascal ==
    /\ pc = "login"
    /\ token \in Tokens
    /\ oauth_scopes \in SUBSET Scopes
    /\ workflow \in [name : PayloadNames, kind : PayloadKinds]
    /\ branch_name = "lint-testing-aaaaa"
    /\ tmp_dir = "none"
    /\ priorFiles = {}
    /\ workTree = {}
    /\ index = {}
    /\ run = NoRun
    /\ discovered = NoRun
    /\ completionPolls = 0
    /\ polledEmpty = FALSE
    /\ pending = <<>>
    /\ logFiles = {}
    /\ calls = <<>>
    /\ remoteRefs = {"main"}
    /\ pushedTree = {}
    /\ runs = <<>>

InitBranchIdle ==
    /\ removals = 0
    /\ raised = FALSE
    /\ prevRefs = {}
    /\ answered = FALSE
    /\ fetched = FALSE
    /\ lastArchive = <<>>

\* GitLabRunner(token, base_url): lines 48-54
NoResult == [operation_id |-> 0, status |-> "none", error |-> "none",
             cleanup_performed |-> FALSE]
InitGitLab ==
    /\ gl_pc = "idle"
    /\ target = <<>>
    /\ pipeline_file = "valid"
    /\ cleanup = TRUE
    /\ operation_id = 0
    /\ project_id = <<>>
    /\ temp_branch = 0
    /\ error = "none"
    /\ result = NoResult
    /\ gl_calls = <<>>

\* GitLabRecon(token, base_url): lines 43-47
EmptyReport == [total_projects |-> 0, suitable_targets |-> 0, targets |-> <<>>]
InitRecon ==
    /\ recons = 0
    /\ recon_projects = <<>>
    /\ recon_targets = <<>>
    /\ returned = "none"
    /\ report = EmptyReport

Init == InitRascal /\ InitBranchIdle /\ InitGitLab /\ InitRecon

\* an exception leaves run(): nothing after the raising statement executes
Fail == pc' = "failed"

\* a scope check that forgets the workflow scope
ScopesSufficientRepoOnly(scopes) == "repo" \in scopes

\* _login's scope check (lines 112-115)
ScopesSufficient(scopes) == "repo" \in scopes /\ "workflow" \in scopes

\* _login: one probe call, then the scope check
Login ==
    /\ pc = "login"
    /\ calls' = Append(calls, "get_rate_limit")
    /\ \E authOk \in BOOLEAN :
          IF authOk /\ ScopesSufficient(oauth_scopes)
          THEN pc' = "clone"
          ELSE Fail
    /\ UNCHANGED <<token, oauth_scopes, workflow, branch_name, tmp_dir,
                   priorFiles, workTree, index, run, discovered,
                   completionPolls, polledEmpty, pending, logFiles,
                   remoteRefs, pushedTree, runs>>
    /\ UNCHANGED <<bvars, gvars, nvars>>

\* _clone_repository: the temporary directory, then the clone into it
CloneRepository ==
    /\ pc = "clone"
    /\ tmp_dir' = "exists"
    /\ \E cloneOk \in BOOLEAN :
          IF cloneOk
          THEN \E files \in SUBSET WorkflowFiles :
                  /\ priorFiles' = files
                  /\ workTree' = files
                  /\ index' = files
                  /\ calls' = calls \o <<"mkdtemp", "clone">>
                  /\ pc' = "push"
          ELSE /\ calls' = Append(calls, "mkdtemp")
               /\ Fail
               /\ UNCHANGED <<priorFiles, workTree, index>>
    /\ UNCHANGED <<token, oauth_scopes, workflow, branch_name, run,
                   discovered, completionPolls, polledEmpty, pending,
                   logFiles, remoteRefs, pushedTree, runs>>
    /\ UNCHANGED <<bvars, gvars, nvars>>

(***************************************************************************)
(* _push_workflow, statement by statement, on the files of                 *)
(* .github/workflows: the working tree, the index, and the commit made     *)
(* from the index.                                                         *)
(***************************************************************************)
\* shutil.rmtree(.github/workflows): raises when the directory is absent (a
\* clone holds the directory exactly when it holds a file in it)
RmTreeRaises(wt) == wt = {}
RmTree(wt) == {}
\* the working tree is emptied but the index is left as cloned
IndexRemoveNothing(idx) == idx
\* repo.index.remove([dir], working_tree=True, r=True)
IndexRemove(idx) == {}
\* shutil.copy2(payload, dir/basename): raises when the payload cannot be read
CopyRaises(p) == p.kind = "unreadable"
Copy(wt, p) == wt \cup {p.name}
\* repo.git.add(dir/basename)
GitAdd(idx, p) == idx \cup {p.name}
\* repo.index.commit(...): the tree of the new commit is the index
CommitTree(idx) == idx

PushWorkflow ==
    /\ pc = "push"
    /\ IF RmTreeRaises(workTree)
       THEN /\ Fail
            /\ UNCHANGED <<workTree, index, calls, remoteRefs, pushedTree>>
       ELSE IF CopyRaises(workflow)
       THEN /\ workTree' = RmTree(workTree)
            /\ index' = IndexRemove(index)
            /\ Fail
            /\ UNCHANGED <<calls, remoteRefs, pushedTree>>
       ELSE /\ workTree' = Copy(RmTree(workTree), workflow)
            /\ index' = GitAdd(IndexRemove(index), workflow)
            /\ \E pushOk \in BOOLEAN :
                  IF pushOk
                  THEN /\ pushedTree' = CommitTree(index')
                       /\ remoteRefs' = remoteRefs \cup {branch_name}
                       /\ calls' = Append(calls, "push_branch")
                       /\ pc' = "wait_run"
                  ELSE /\ Fail
                       /\ UNCHANGED <<calls, remoteRefs, pushedTree>>
    /\ UNCHANGED <<token, oauth_scopes, workflow, branch_name, tmp_dir,
                   priorFiles, run, discovered, completionPolls, polledEmpty,
                   pending, logFiles, runs>>
    /\ UNCHANGED <<bvars, gvars, nvars>>

(***************************************************************************)
(* The platform: it may create runs for the pushed branch and move each    *)
(* run towards "completed" while the observer polls.                       *)
(***************************************************************************)
PlatformCreatesRun ==
    /\ pc \in {"wait_run", "wait_completion"}
    /\ Len(runs) < MaxRuns
    /\ runs' = <<[id |-> Len(runs) + 1, status |-> "queued"]>> \o runs
    /\ UNCHANGED <<pc, token, oauth_scopes, workflow, branch_name, tmp_dir,
                   priorFiles, workTree, index, run, discovered,
                   completionPolls, polledEmpty, pending, logFiles, calls,
                   remoteRefs, pushedTree>>
    /\ UNCHANGED <<bvars, gvars, nvars>>

PlatformAdvancesRun ==
    /\ pc \in {"wait_run", "wait_completion"}
    /\ \E i \in DOMAIN runs :
          \E st \in RunStatuses :
             /\ \/ runs[i].status = "queued" /\ st \in {"in_progress", "completed"}
                \/ runs[i].status = "in_progress" /\ st = "completed"
             /\ runs' = [runs EXCEPT ![i].status = st]
    /\ UNCHANGED <<pc, token, oauth_scopes, workflow, branch_name, tmp_dir,
                   priorFiles, workTree, index, run, discovered,
                   completionPolls, polledEmpty, pending, logFiles, calls,
                   remoteRefs, pushedTree>>
    /\ UNCHANGED <<bvars, gvars, nvars>>

(***************************************************************************)
(* _remove_remote_branch: remote.push(refspec=":refs/heads/<branch>").     *)
(* A push that reaches the remote deletes the ref; deleting by full ref    *)
(* name a ref the remote does not hold is accepted by the remote as well   *)
(* (git answers "deleting a non-existent ref" and exits 0).  A push that   *)
(* does not reach the remote raises.                                       *)
(***************************************************************************)
\* deletion by the short refspec ":<branch>", which git refuses for a ref the
\* remote does not hold ("remote ref does not exist")
RemoveRemoteBranchShort(refs, branch, reached) ==
    IF reached /\ branch \in refs
    THEN [refs |-> refs \ {branch}, raised |-> FALSE]
    ELSE [refs |-> refs, raised |-> TRUE]

\* a removal that reports success and deletes nothing
RemoveRemoteBranchNoop(refs, branch, reached) ==
    [refs |-> refs, raised |-> ~reached]

RemoveRemoteBranch(refs, branch, reached) ==
    IF reached
    THEN [refs |-> refs \ {branch}, raised |-> FALSE]
    ELSE [refs |-> refs, raised |-> TRUE]

\* next(iter(gh_repo.get_workflow_runs(branch=...)), None)
FirstRun(rs) == IF rs = <<>> THEN NoRun ELSE Head(rs)

\* a test that takes every started run for a finished one
IsCompletedLoose(r) == r.status # "queued"
\* the inner loop's test run.status == "completed"
IsCompleted(r) == r.status = "completed"

\* an outer loop that gives up waiting for a run
PollForRunBounded ==
    /\ pc = "wait_run"
    /\ \E listOk \in BOOLEAN, reached \in BOOLEAN :
          IF ~listOk
          THEN /\ Fail
               /\ UNCHANGED <<run, discovered, polledEmpty, remoteRefs,
                              calls>>
          ELSE LET found == FirstRun(runs)
                   rm == RemoveRemoteBranch(remoteRefs, branch_name, reached)
               IN  /\ run' = found
                   /\ IF found = NoRun
                      THEN /\ pc' \in {"wait_run", "timeout"}
                           /\ polledEmpty' = TRUE
                           /\ UNCHANGED <<discovered, remoteRefs, calls>>
                      ELSE /\ discovered' = found
                           /\ remoteRefs' = rm.refs
                           /\ UNCHANGED polledEmpty
                           /\ IF rm.raised
                              THEN /\ Fail
                                   /\ UNCHANGED calls
                              ELSE /\ calls' = Append(calls, "remove_branch")
                                   /\ pc' = "wait_completion"
    /\ UNCHANGED <<token, oauth_scopes, workflow, branch_name, tmp_dir, priorFiles,
                   workTree, index, completionPolls, pending, logFiles,
                   pushedTree, runs>>
    /\ UNCHANGED <<bvars, gvars, nvars>>

(***************************************************************************)
(* _wait_for_workflow, outer loop (WAITING_FOR_RUN): one iteration.        *)
(***************************************************************************)
PollForRun ==
    /\ pc = "wait_run"
    /\ \E listOk \in BOOLEAN, reached \in BOOLEAN :
          IF ~listOk
          THEN /\ Fail
               /\ UNCHANGED <<run, discovered, polledEmpty, remoteRefs,
                              calls>>
          ELSE LET found == FirstRun(runs)
                   rm == RemoveRemoteBranch(remoteRefs, branch_name, reached)
               IN  /\ run' = found
                   /\ IF found = NoRun
                      THEN /\ pc' = "wait_run"
                           /\ polledEmpty' = TRUE
                           /\ UNCHANGED <<discovered, remoteRefs, calls>>
                      ELSE /\ discovered' = found
                           /\ remoteRefs' = rm.refs
                           /\ UNCHANGED polledEmpty
                           /\ IF rm.raised
                              THEN /\ Fail
                                   /\ UNCHANGED calls
                              ELSE /\ calls' = Append(calls, "remove_branch")
                                   /\ pc' = "wait_completion"
    /\ UNCHANGED <<token, oauth_scopes, workflow, branch_name, tmp_dir, priorFiles,
                   workTree, index, completionPolls, pending, logFiles,
                   pushedTree, runs>>
    /\ UNCHANGED <<bvars, gvars, nvars>>

(***************************************************************************)
(* _wait_for_workflow, inner loop (WAITING_FOR_COMPLETION): one iteration. *)
(* The run is looked up again as the first run listed for the branch;      *)
(* with no run listed, run.status raises.  pc = "download" is COMPLETED.   *)
(***************************************************************************)
PollForCompletion ==
    /\ pc = "wait_completion"
    /\ \E listOk \in BOOLEAN :
          IF ~listOk
          THEN /\ Fail
               /\ UNCHANGED <<run, completionPolls>>
          ELSE /\ run' = FirstRun(runs)
               /\ completionPolls' = Min(completionPolls + 1, MaxPolls)
               /\ IF run' = NoRun
                  THEN Fail
                  ELSE IF IsCompleted(run')
                  THEN pc' = "download"
                  ELSE pc' = "wait_completion"
    /\ UNCHANGED <<token, oauth_scopes, workflow, branch_name, tmp_dir,
                   priorFiles, workTree, index, discovered, polledEmpty,
                   pending, logFiles, calls, remoteRefs, pushedTree, runs>>
    /\ UNCHANGED <<bvars, gvars, nvars>>

(***************************************************************************)
(* _download_run_logs(run.logs_url)                                        *)
(***************************************************************************)
\* re.compile(r"0_.*\.txt$").match(name)
PatternMatches(e) == e.ord = 0 /\ e.ext = "txt"
\* [name for name in zip_ref.namelist() if pattern.match(name)]
Matches(archive) == SelectSeq(archive, PatternMatches)

\* the local files after `if matches:` (lines 188-196): the first matching
\* entry is written, nothing when no entry matches
WriteLastMatch(files, archive) ==
    IF Matches(archive) # <<>>
    THEN files \cup {Matches(archive)[Len(Matches(archive))]}
    ELSE files
WriteFirstMatch(files, archive) ==
    IF Matches(archive) # <<>>
    THEN files \cup {Matches(archive)[1]}
    ELSE files

\* _download_run_logs raises when the GET does not return an archive and,
\* with a matching entry, when the repository lookup or the open() of
\* lines 193-195 raises; with no matching entry nothing after the GET runs
CollectRaises(getOk, archive, writeOk) ==
    ~getOk \/ (Matches(archive) # <<>> /\ ~writeOk)

\* the body of _download_run_logs
CollectLogs(getOk, archive, writeOk) ==
    /\ IF CollectRaises(getOk, archive, writeOk)
       THEN /\ Fail
            /\ calls' = IF getOk THEN Append(calls, "download_logs") ELSE calls
            /\ UNCHANGED logFiles
       ELSE /\ logFiles' = WriteFirstMatch(logFiles, archive)
            /\ calls' = IF Matches(archive) # <<>>
                        THEN calls \o <<"download_logs", "write_log">>
                        ELSE Append(calls, "download_logs")
            /\ pc' = "delete_run"
    /\ UNCHANGED <<token, oauth_scopes, workflow, branch_name, tmp_dir,
                   priorFiles, workTree, index, run, discovered,
                   completionPolls, polledEmpty, pending, remoteRefs,
                   pushedTree, runs>>

DownloadRunLogs ==
    /\ pc = "download"
    /\ \E getOk \in BOOLEAN, archive \in Archives, writeOk \in BOOLEAN :
          CollectLogs(getOk, archive, writeOk)
    /\ UNCHANGED <<bvars, gvars, nvars>>

\* a run() that leaves the deployment records alone
AfterWaitSkipsDeployments == "cleanup"
\* run(), lines 229-230: _delete_deployments follows _wait_for_workflow
AfterWait == "deployments"

\* run.delete(): the run held in `run` leaves the platform's list
DeleteRun ==
    /\ pc = "delete_run"
    /\ \E ok \in BOOLEAN :
          IF ok
          THEN /\ runs' = SelectSeq(runs, LAMBDA r : r.id # run.id)
               /\ calls' = Append(calls, "delete_run")
               /\ pc' = AfterWait
          ELSE /\ Fail
               /\ UNCHANGED <<runs, calls>>
    /\ UNCHANGED <<token, oauth_scopes, workflow, branch_name, tmp_dir,
                   priorFiles, workTree, index, run, discovered,
                   completionPolls, polledEmpty, pending, logFiles,
                   remoteRefs, pushedTree>>
    /\ UNCHANGED <<bvars, gvars, nvars>>

(***************************************************************************)
(* _delete_deployments: the listing, then one loop iteration per record.   *)
(***************************************************************************)
ListDeployments ==
    /\ pc = "deployments"
    /\ \E ok \in BOOLEAN, n \in 0..MaxDeployments :
          IF ok
          THEN /\ pending' = [i \in 1..n |-> i]
               /\ calls' = Append(calls, "get_deployments")
               /\ pc' = IF n = 0 THEN "cleanup" ELSE "deployment"
          ELSE /\ Fail
               /\ UNCHANGED <<pending, calls>>
    /\ UNCHANGED <<token, oauth_scopes, workflow, branch_name, tmp_dir,
                   priorFiles, workTree, index, run, discovered,
                   completionPolls, polledEmpty, logFiles, remoteRefs,
                   pushedTree, runs>>
    /\ UNCHANGED <<bvars, gvars, nvars>>

\* one iteration of the loop of lines 165-172: create_status("inactive")
\* raises on failure; the DELETE call raises when it gets no answer, and the
\* status code of its answer is only logged
DeploymentOutcomes == {"status_raises", "delete_raises", "deleted", "not_deleted"}
DeleteDeployment ==
    /\ pc = "deployment"
    /\ pending # <<>>
    /\ \E outcome \in DeploymentOutcomes :
          CASE outcome = "status_raises" ->
                  /\ Fail
                  /\ UNCHANGED <<pending, calls>>
            [] outcome = "delete_raises" ->
                  /\ Fail
                  /\ calls' = calls \o <<"deployment_inactive", "delete_no_answer">>
                  /\ UNCHANGED pending
            [] OTHER ->
                  /\ pending' = Tail(pending)
                  /\ calls' = IF outcome = "deleted"
                              THEN calls \o <<"deployment_inactive", "deployment_delete">>
                              ELSE Append(calls, "deployment_inactive")
                  /\ pc' = IF Tail(pending) = <<>> THEN "cleanup" ELSE "deployment"
    /\ UNCHANGED <<token, oauth_scopes, workflow, branch_name, tmp_dir,
                   priorFiles, workTree, index, run, discovered,
                   completionPolls, polledEmpty, logFiles, remoteRefs,
                   pushedTree, runs>>
    /\ UNCHANGED <<bvars, gvars, nvars>>

\* _cleanup: self._tmp_dir.cleanup(), then run() returns
Cleanup ==
    /\ pc = "cleanup"
    /\ tmp_dir' = "removed"
    /\ calls' = Append(calls, "cleanup")
    /\ pc' = "done"
    /\ UNCHANGED <<token, oauth_scopes, workflow, branch_name, priorFiles,
                   workTree, index, run, discovered, completionPolls,
                   polledEmpty, pending, logFiles, remoteRefs, pushedTree,
                   runs>>
    /\ UNCHANGED <<bvars, gvars, nvars>>

\* RascalRunner.run, with the platform beside it
Next ==
    \/ Login
    \/ CloneRepository
    \/ PushWorkflow
    \/ PlatformCreatesRun
    \/ PlatformAdvancesRun
    \/ PollForRun
    \/ PollForCompletion
    \/ DownloadRunLogs
    \/ DeleteRun
    \/ ListDeployments
    \/ DeleteDeployment
    \/ Cleanup

Spec == Init /\ [][Next]_vars

(***************************************************************************)
(* run() with its scheduling: the two loops of _wait_for_workflow keep     *)
(* iterating (sleep, then list again), so a poll that the platform answers *)
(* is taken again and again.  Nothing is assumed of the platform.          *)
(* A run() whose credential and payload let it reach the loops.            *)
(***************************************************************************)
InitFair ==
    /\ Init
    /\ TokenMatches(token)
    /\ ScopesSufficient(oauth_scopes)
    /\ workflow.kind = "valid"

SpecFair ==
    /\ InitFair
    /\ [][Next]_vars
    /\ WF_vars(PollForRun /\ pc' # "failed")
    /\ WF_vars(PollForCompletion /\ pc' # "failed")

(***************************************************************************)
(* GitLabRunner.run_operation.                                             *)
(* Each step is a call on self; a call returns or raises, and which of     *)
(* the two is an input.  _validate_target and _deploy_pipeline raise on    *)
(* what the wrapper and the payload file answer; the other step bodies     *)
(* are placeholders (their remote calls are not written yet), so whether   *)
(* the call raises is the whole of their outcome.  run_operation's own     *)
(* console output has no effect on the state and is left out.              *)
(***************************************************************************)
Digits == {"0", "1", "2", "3", "4", "5", "6", "7", "8", "9"}
\* a test that is content with one digit
IsDigitSome(t) == \E i \in DOMAIN t : t[i] \in Digits
\* str.isdigit(): non-empty and every character a digit
IsDigit(t) == Len(t) > 0 /\ \A i \in DOMAIN t : t[i] \in Digits

Targets == { <<"4", "2">>, <<"g", "/", "p">>, <<"g", "/", "q">>, <<"4", "x">>, <<>> }
PipelineKinds == {"valid", "invalid_yaml", "unreadable"}

\* what GET /projects may answer: dicts with "id" and "path_with_namespace"
ProjectP == [id |-> <<"7">>, path_with_namespace |-> <<"g", "/", "p">>]
ProjectR == [id |-> <<"9">>, path_with_namespace |-> <<"g", "/", "r">>]
Listings == { <<>>, <<ProjectP>>, <<ProjectR>>, <<ProjectR, ProjectP>> }

\* run_operation(target, pipeline_file, cleanup) is entered: lines 68-71
RunOperation ==
    /\ gl_pc = "idle"
    /\ operation_id < MaxOps
    /\ \E t \in Targets, f \in PipelineKinds, c \in BOOLEAN :
          /\ target' = t
          /\ pipeline_file' = f
          /\ cleanup' = c
    /\ operation_id' = operation_id + 1
    /\ error' = "none"
    /\ result' = NoResult
    /\ gl_calls' = <<>>
    /\ gl_pc' = "validate"
    /\ UNCHANGED <<project_id, temp_branch>>
    /\ UNCHANGED <<rvars, bvars, nvars>>

\* the for loop of lines 132-135: the id of the first project whose
\* path_with_namespace equals the target, else self.project_id as it was
SearchProject(projects, t, current) ==
    LET hits == SelectSeq(projects, LAMBDA p : p.path_with_namespace = t)
    IN  IF hits = <<>> THEN current ELSE hits[1].id

\* an exception that is noted and then skipped over to the cleanup step
RaiseAndGoOn(step) ==
    /\ error' = step
    /\ gl_pc' = "cleanup"

\* the step raised: run_operation's except clause takes over
Raise(step) ==
    /\ error' = step
    /\ gl_pc' = "handler"

\* _validate_target
ValidateTarget ==
    /\ gl_pc = "validate"
    /\ IF IsDigit(target)
       THEN /\ project_id' = target
            /\ \E getOk \in BOOLEAN :
                  /\ gl_calls' = gl_calls \o <<"validate", "get_project">>
                  /\ IF getOk
                     THEN gl_pc' = "backup" /\ UNCHANGED error
                     ELSE Raise("validate")
       ELSE \E listOk \in BOOLEAN, projects \in Listings, getOk \in BOOLEAN :
               IF ~listOk
               THEN /\ gl_calls' = gl_calls \o <<"validate", "list_projects">>
                    /\ Raise("validate")
                    /\ UNCHANGED project_id
               ELSE /\ project_id' = SearchProject(projects, target, project_id)
                    /\ IF project_id' = <<>>
                       THEN /\ gl_calls' = gl_calls \o <<"validate", "list_projects">>
                            /\ Raise("validate")
                       ELSE /\ gl_calls' = gl_calls \o
                                   <<"validate", "list_projects", "get_project">>
                            /\ IF getOk
                               THEN gl_pc' = "backup" /\ UNCHANGED error
                               ELSE Raise("validate")
    /\ UNCHANGED <<target, pipeline_file, cleanup, operation_id, temp_branch, result>>
    /\ UNCHANGED <<rvars, bvars, nvars>>

\* _backup_original_ci
BackupOriginalCi ==
    /\ gl_pc = "backup"
    /\ gl_calls' = Append(gl_calls, "backup")
    /\ \E raises \in BOOLEAN :
          IF raises THEN Raise("backup") ELSE gl_pc' = "create_branch" /\ UNCHANGED error
    /\ UNCHANGED <<target, pipeline_file, cleanup, operation_id, project_id,
                   temp_branch, result>>
    /\ UNCHANGED <<rvars, bvars, nvars>>

\* _create_temp_branch(operation_id): the name is assigned first
CreateTempBranch ==
    /\ gl_pc = "create_branch"
    /\ temp_branch' = operation_id
    /\ gl_calls' = Append(gl_calls, "create_branch")
    /\ \E raises \in BOOLEAN :
          IF raises THEN Raise("create_branch") ELSE gl_pc' = "deploy" /\ UNCHANGED error
    /\ UNCHANGED <<target, pipeline_file, cleanup, operation_id, project_id, result>>
    /\ UNCHANGED <<rvars, bvars, nvars>>

\* _deploy_pipeline(pipeline_file): open() and yaml.safe_load() come first
DeployPipeline ==
    /\ gl_pc = "deploy"
    /\ gl_calls' = Append(gl_calls, "deploy")
    /\ \E raises \in BOOLEAN :
          IF pipeline_file # "valid" \/ raises
          THEN Raise("deploy")
          ELSE gl_pc' = "monitor" /\ UNCHANGED error
    /\ UNCHANGED <<target, pipeline_file, cleanup, operation_id, project_id,
                   temp_branch, result>>
    /\ UNCHANGED <<rvars, bvars, nvars>>

\* _monitor_execution
MonitorExecution ==
    /\ gl_pc = "monitor"
    /\ gl_calls' = Append(gl_calls, "monitor")
    /\ \E raises \in BOOLEAN :
          IF raises THEN Raise("monitor") ELSE gl_pc' = "collect" /\ UNCHANGED error
    /\ UNCHANGED <<target, pipeline_file, cleanup, operation_id, project_id,
                   temp_branch, result>>
    /\ UNCHANGED <<rvars, bvars, nvars>>

\* _collect_outputs
CollectOutputs ==
    /\ gl_pc = "collect"
    /\ gl_calls' = Append(gl_calls, "collect")
    /\ \E raises \in BOOLEAN :
          IF raises THEN Raise("collect") ELSE gl_pc' = "cleanup" /\ UNCHANGED error
    /\ UNCHANGED <<target, pipeline_file, cleanup, operation_id, project_id,
                   temp_branch, result>>
    /\ UNCHANGED <<rvars, bvars, nvars>>

\* lines 91-92, inside the try: if cleanup: self._cleanup_operation()
CleanupStep ==
    /\ gl_pc = "cleanup"
    /\ IF cleanup
       THEN \E raises \in BOOLEAN :
               IF raises
               THEN /\ gl_calls' = Append(gl_calls, "cleanup_operation")
                    /\ Raise("cleanup")
               ELSE /\ gl_calls' = gl_calls \o <<"cleanup_operation", "cleanup_returned">>
                    /\ gl_pc' = "return"
                    /\ UNCHANGED error
       ELSE /\ gl_pc' = "return"
            /\ UNCHANGED <<gl_calls, error>>
    /\ UNCHANGED <<target, pipeline_file, cleanup, operation_id, project_id,
                   temp_branch, result>>
    /\ UNCHANGED <<rvars, bvars, nvars>>

\* the dict of lines 96-103
SuccessResult(id, c) ==
    [operation_id |-> id, status |-> "success", error |-> "none",
     cleanup_performed |-> c]

ReturnSuccess ==
    /\ gl_pc = "return"
    /\ result' = SuccessResult(operation_id, cleanup)
    /\ gl_pc' = "idle"
    /\ UNCHANGED <<target, pipeline_file, cleanup, operation_id, project_id,
                   temp_branch, error, gl_calls>>
    /\ UNCHANGED <<rvars, bvars, nvars>>

\* the dict of lines 113-119
FailedResult(id, e) ==
    [operation_id |-> id, status |-> "failed", error |-> e,
     cleanup_performed |-> FALSE]

\* _emergency_cleanup as called from the handler: it may raise before it
\* reaches _cleanup_operation, and swallows what _cleanup_operation raises.
\* "cleanup_returned" in the log: _cleanup_operation ran to its end.
EmergencyOutcomes == {"returned", "cleanup_raised", "raised_before_cleanup"}
EmergencyCleanup(log, outcome) ==
    CASE outcome = "raised_before_cleanup" -> Append(log, "emergency_cleanup")
      [] outcome = "cleanup_raised" ->
            log \o <<"emergency_cleanup", "cleanup_operation">>
      [] OTHER ->
            log \o <<"emergency_cleanup", "cleanup_operation", "cleanup_returned">>

\* _emergency_cleanup called with no try around it
AfterEmergencyUnguarded(outcome) ==
    IF outcome = "raised_before_cleanup" THEN "raised" ELSE "idle"

\* the try/except: pass of lines 108-111 around _emergency_cleanup: whatever
\* it raises, control goes on to the return statement
AfterEmergency(outcome) == "idle"

\* the except clause of lines 105-119: emergency cleanup, then the failed
\* result is returned
HandleFailure ==
    /\ gl_pc = "handler"
    /\ \E outcome \in EmergencyOutcomes :
          /\ gl_calls' = EmergencyCleanup(gl_calls, outcome)
          /\ gl_pc' = AfterEmergency(outcome)
    /\ result' = IF gl_pc' = "idle" THEN FailedResult(operation_id, error) ELSE result
    /\ UNCHANGED <<target, pipeline_file, cleanup, operation_id, project_id,
                   temp_branch, error>>
    /\ UNCHANGED <<rvars, bvars, nvars>>

NextGL ==
    \/ RunOperation
    \/ ValidateTarget
    \/ BackupOriginalCi
    \/ CreateTempBranch
    \/ DeployPipeline
    \/ MonitorExecution
    \/ CollectOutputs
    \/ CleanupStep
    \/ ReturnSuccess
    \/ HandleFailure

\* no RascalRunner is at work beside the GitLabRunner
RascalIdle ==
    /\ pc = "idle"
    /\ token = [prefix |-> "ghp_", bodyLen |-> 36, alnum |-> TRUE]
    /\ oauth_scopes = {}
    /\ workflow = [name |-> "evil.yml", kind |-> "valid"]
    /\ branch_name = "lint-testing-aaaaa"
    /\ tmp_dir = "none"
    /\ priorFiles = {}
    /\ workTree = {}
    /\ index = {}
    /\ run = NoRun
    /\ discovered = NoRun
    /\ completionPolls = 0
    /\ polledEmpty = FALSE
    /\ pending = <<>>
    /\ logFiles = {}
    /\ calls = <<>>
    /\ remoteRefs = {"main"}
    /\ pushedTree = {}
    /\ runs = <<>>

InitGL == RascalIdle /\ InitBranchIdle /\ InitGitLab /\ InitRecon

SpecGL == InitGL /\ [][NextGL]_vars

(***************************************************************************)
(* GitLabRecon.run_reconnaissance, called any number of times on one       *)
(* object.  What the wrapper answers is an input: the connection test, and *)
(* for each of the two listings either a list of project dicts or an       *)
(* exception.  The console output has no effect on the state, except that  *)
(* display_target_analysis can raise on a target's permissions.            *)
(***************************************************************************)
\* a project dict without "id"
ProjectNoId == [id |-> <<>>, path_with_namespace |-> <<"g", "/", "n">>]
ReconListings == { <<>>, <<ProjectP>>, <<ProjectNoId>>, <<ProjectP, ProjectR>>,
                   <<ProjectNoId, ProjectR>> }

\* discover_projects: the owned listing replaces self.projects and the
\* member listing is appended to it; an exception from the first leaves
\* self.projects as it was, one from the second is swallowed
DiscoverProjects(current, ownedOk, owned, memberOk, member) ==
    IF ~ownedOk THEN current
    ELSE IF memberOk THEN owned \o member ELSE owned

\* analyze_project: None for a project without "id", else the target dict
HasId(project) == project.id # <<>>

\* analyze_targets: one append to self.targets per project that has an id
AnalyzeTargets(current, ps) ==
    LET withId == SelectSeq(ps, HasId)
    IN  current \o [i \in DOMAIN withId |-> withId[i].id]

\* generate_report
GenerateReport(ps, ts) ==
    [total_projects |-> Len(ps), suitable_targets |-> Len(ts), targets |-> ts]

RunReconnaissance ==
    /\ recons < MaxRecons
    /\ recons' = recons + 1
    /\ \E connOk \in BOOLEAN, ownedOk \in BOOLEAN, owned \in ReconListings,
          memberOk \in BOOLEAN, member \in ReconListings,
          displayRaises \in BOOLEAN :
          IF ~connOk
          THEN /\ returned' = "empty"
               /\ report' = EmptyReport
               /\ UNCHANGED <<recon_projects, recon_targets>>
          ELSE /\ recon_projects' =
                     DiscoverProjects(recon_projects, ownedOk, owned,
                                      memberOk, member)
               /\ recon_targets' = AnalyzeTargets(recon_targets, recon_projects')
               /\ IF displayRaises /\ recon_targets' # <<>>
                  THEN /\ returned' = "raised"
                       /\ report' = EmptyReport
                  ELSE /\ returned' = "report"
                       /\ report' = GenerateReport(recon_projects', recon_targets')
    /\ UNCHANGED <<rvars, bvars, gvars>>

NextRecon == RunReconnaissance

InitReconOnly == RascalIdle /\ InitBranchIdle /\ InitGitLab /\ InitRecon

SpecRecon == InitReconOnly /\ [][NextRecon]_vars

(***************************************************************************)
(* _remove_remote_branch applied on its own, any number of times, to a     *)
(* cloned repository whose remote holds any set of branches.               *)
(***************************************************************************)
InvokeRemoveRemoteBranch ==
    /\ removals < MaxRemovals
    /\ \E reached \in BOOLEAN :
          LET rm == RemoveRemoteBranch(remoteRefs, branch_name, reached)
          IN  /\ remoteRefs' = rm.refs
              /\ raised' = rm.raised
              /\ answered' = reached
    /\ prevRefs' = remoteRefs
    /\ removals' = removals + 1
    /\ UNCHANGED <<fetched, lastArchive>>
    /\ UNCHANGED <<pc, token, oauth_scopes, workflow, branch_name, tmp_dir,
                   priorFiles, workTree, index, run, discovered,
                   completionPolls, polledEmpty, pending, logFiles, calls,
                   pushedTree, runs>>
    /\ UNCHANGED <<gvars, nvars>>

NextBranch == InvokeRemoveRemoteBranch

InitBranch ==
    /\ pc = "cloned"
    /\ token = [prefix |-> "ghp_", bodyLen |-> 36, alnum |-> TRUE]
    /\ oauth_scopes = {"repo", "workflow"}
    /\ workflow = [name |-> "evil.yml", kind |-> "valid"]
    /\ branch_name \in BranchNames
    /\ tmp_dir = "exists"
    /\ priorFiles = {}
    /\ workTree = {}
    /\ index = {}
    /\ run = NoRun
    /\ discovered = NoRun
    /\ completionPolls = 0
    /\ polledEmpty = FALSE
    /\ pending = <<>>
    /\ logFiles = {}
    /\ calls = <<"get_rate_limit", "mkdtemp", "clone">>
    /\ remoteRefs \in SUBSET (OtherBranches \cup BranchNames)
    /\ pushedTree = {}
    /\ runs = <<>>
    /\ InitBranchIdle
    /\ InitGitLab
    /\ InitRecon

SpecBranch == InitBranch /\ [][NextBranch]_vars

(***************************************************************************)
(* _download_run_logs followed to the end of run(), from the moment the    *)
(* inner loop has seen the run completed, with the archive the GET         *)
(* returned kept beside the program's state.                               *)
(***************************************************************************)
InvokeDownloadRunLogs ==
    /\ pc = "download"
    /\ \E getOk \in BOOLEAN, archive \in Archives, writeOk \in BOOLEAN :
          /\ CollectLogs(getOk, archive, writeOk)
          /\ fetched' = getOk
          /\ lastArchive' = IF getOk THEN archive ELSE <<>>
    /\ UNCHANGED <<removals, raised, prevRefs, answered>>
    /\ UNCHANGED <<gvars, nvars>>

NextCollect ==
    \/ InvokeDownloadRunLogs
    \/ DeleteRun
    \/ ListDeployments
    \/ DeleteDeployment
    \/ Cleanup

\* run() after login, clone, push, discovery of run 1 and the completion
\* poll that saw it completed
InitCollect ==
    /\ pc = "download"
    /\ token = [prefix |-> "ghp_", bodyLen |-> 36, alnum |-> TRUE]
    /\ oauth_scopes = Scopes
    /\ workflow \in [name : PayloadNames, kind : {"valid"}]
    /\ branch_name = "lint-testing-aaaaa"
    /\ tmp_dir = "exists"
    /\ priorFiles \in (SUBSET WorkflowFiles) \ {{}}
    /\ workTree = {workflow.name}
    /\ index = {workflow.name}
    /\ run = [id |-> 1, status |-> "completed"]
    /\ discovered \in {[id |-> 1, status |-> st] : st \in RunStatuses}
    /\ completionPolls = 1
    /\ polledEmpty \in BOOLEAN
    /\ pending = <<>>
    /\ logFiles = {}
    /\ calls = <<"get_rate_limit", "mkdtemp", "clone", "push_branch",
                 "remove_branch">>
    /\ remoteRefs = {"main"}
    /\ pushedTree = {workflow.name}
    /\ runs = <<[id |-> 1, status |-> "completed"]>>
    /\ InitBranchIdle
    /\ InitGitLab
    /\ InitRecon

SpecCollect == InitCollect /\ [][NextCollect]_vars

(***************************************************************************)
(* The claims.                                                             *)
(***************************************************************************)
Count(s, x) == Cardinality({i \in DOMAIN s : s[i] = x})
Last(s) == s[Len(s)]

\* C1: a credential whose scopes lack "repo" or lack "workflow" never gets
\* past _login: run is still at _login or has failed there, and no mutating
\* step (workspace, clone, push, branch removal, run deletion, deployment
\* change) has been performed.
C1_NoMutationWithoutScopes ==
    ("repo" \notin oauth_scopes \/ "workflow" \notin oauth_scopes)
        => /\ pc \in {"login", "failed"}
           /\ \A i \in DOMAIN calls : calls[i] \notin Mutating
           /\ tmp_dir = "none"
           /\ remoteRefs = {"main"}
           /\ logFiles = {}

\* _login has failed on a credential that has "repo" but not "workflow"
C1_Witness ==
    /\ "repo" \in oauth_scopes
    /\ "workflow" \notin oauth_scopes
    /\ pc = "failed"
    /\ calls = <<"get_rate_limit">>

\* C2: the observer is in COMPLETED (log download and after) only with a
\* polled run whose status is "completed", and a completion poll that leaves
\* it in WAITING_FOR_COMPLETION has observed another status: the first poll
\* that observes "completed" moves it to COMPLETED.
C2_CompletedOnlyOnCompleted ==
    /\ [](pc \in {"download", "delete_run", "deployments", "deployment",
                  "cleanup", "done"} => run.status = "completed")
    /\ [][(pc = "wait_completion" /\ pc' = "wait_completion" /\ runs' = runs)
            => run'.status # "completed"]_vars

\* a run found already completed is COMPLETED at the first completion poll
C2_Witness ==
    /\ pc = "download"
    /\ completionPolls = 1
    /\ discovered.status = "completed"
    /\ run = discovered

\* C3: when run() has ended, by returning or by an exception, a workspace
\* that was created has been released by _cleanup.
C3_WorkspaceReleased ==
    (pc \in {"done", "failed"} /\ tmp_dir # "none")
        => (tmp_dir = "removed" /\ "cleanup" \in Range(calls))

\* the step the handler's exception came from, read off the log of the call:
\* the entry before the emergency cleanup
StepOf(entry) ==
    CASE entry \in {"validate", "list_projects", "get_project"} -> "validate"
      [] entry = "cleanup_operation" -> "cleanup"
      [] OTHER -> entry
FailedStep(log) ==
    LET k == CHOOSE i \in DOMAIN log :
                 /\ log[i] = "emergency_cleanup"
                 /\ \A j \in 1..(i - 1) : log[j] # "emergency_cleanup"
    IN  StepOf(log[k - 1])

\* C4: once a step of run_operation has raised and the handler has run,
\* run_operation has returned (it did not raise), emergency cleanup was
\* called before that, and the result is "failed" with the error of the step
\* that raised, whatever the emergency cleanup did.
C4_FailureIsReported ==
    (error # "none" /\ gl_pc # "handler")
        => /\ gl_pc = "idle"
           /\ "emergency_cleanup" \in Range(gl_calls)
           /\ result.status = "failed"
           /\ result.operation_id = operation_id
           /\ result.error = FailedStep(gl_calls)

\* _monitor_execution raised, and so did the emergency cleanup
C4_Witness ==
    /\ gl_pc = "idle"
    /\ result.status = "failed"
    /\ result.error = "monitor"
    /\ Last(gl_calls) = "emergency_cleanup"

\* C5: when every forward step has returned and the normal-path cleanup
\* raised, the returned result is "success" and _cleanup_operation was
\* invoked exactly once.
C5_CleanupFailureNotEscalated ==
    (gl_pc = "idle" /\ error = "cleanup")
        => /\ result.status = "success"
           /\ Count(gl_calls, "cleanup_operation") = 1

\* C6: with a payload file that cannot be read or is not valid YAML,
\* run_operation assigns no temporary branch name and makes no remote call.
C6_BadPayloadFailsFirst ==
    pipeline_file # "valid"
        => \A i \in DOMAIN gl_calls :
              gl_calls[i] \notin {"create_branch", "list_projects", "get_project"}

\* C7: with a token that does not match ghp_ + 36 alphanumerics, run() makes
\* no network call.
C7_MalformedTokenNoNetwork ==
    ~TokenMatches(token) => \A i \in DOMAIN calls : calls[i] \notin Network

\* the targets made of digits only
NumericTargets == {t \in Targets : t # <<>> /\ Range(t) \subseteq Digits}

\* C8: _validate_target never lists the projects for a target made of digits
\* only, and lists them exactly once for any other target.
C8_ListingCalls ==
    /\ Count(gl_calls, "list_projects") <= 1
    /\ target \in NumericTargets => Count(gl_calls, "list_projects") = 0
    /\ ("validate" \in Range(gl_calls) /\ target \notin NumericTargets)
          => Count(gl_calls, "list_projects") = 1

\* the second operation of a runner validated a numeric target: one project
\* lookup, no listing
C8_Witness ==
    /\ operation_id = 2
    /\ target \in NumericTargets
    /\ "get_project" \in Range(gl_calls)
    /\ "list_projects" \notin Range(gl_calls)

\* C9: once _push_workflow has pushed, .github/workflows of the pushed branch
\* holds exactly one file, the payload under its base name, whatever the
\* directory held in the clone.
C9_OnlyThePayload ==
    "push_branch" \in Range(calls) => pushedTree = {workflow.name}

\* pushed from a clone that held two workflow files
C9_Witness ==
    /\ "push_branch" \in Range(calls)
    /\ Cardinality(priorFiles) = 2
    /\ workflow.name \notin priorFiles
    /\ pushedTree = {workflow.name}

\* C10: an invocation of _remove_remote_branch after the first, that finds
\* the ref already absent and whose push reaches the remote, does not raise
\* and leaves the remote's branches as they were.
C10_RemovalIdempotent ==
    (removals >= 2 /\ answered /\ branch_name \notin prevRefs)
        => (~raised /\ remoteRefs = prevRefs)

\* a second invocation that found the ref absent and reached the remote
C10_Witness ==
    /\ removals = 2
    /\ answered
    /\ branch_name \notin prevRefs
    /\ ~raised
    /\ remoteRefs = prevRefs

\* C11: every result run_operation returns carries the identifier of the
\* operation and a status of "success" or "failed", and its cleanup_performed
\* is true exactly when _cleanup_operation was executed during that
\* operation, on the success path and on the failure path.
C11_ResultTellsCleanup ==
    (gl_pc = "idle" /\ result # NoResult)
        => /\ result.operation_id = operation_id
           /\ result.status \in {"success", "failed"}
           /\ result.cleanup_performed <=> ("cleanup_returned" \in Range(gl_calls))

\* what run() does after _wait_for_workflow has found a run
Teardown == {"remove_branch", "download_logs", "write_log", "delete_run",
             "get_deployments", "deployment_inactive", "deployment_delete",
             "cleanup"}

\* C12: as long as the platform has reported no run for the branch,
\* _wait_for_workflow is in WAITING_FOR_RUN: it has not returned and has
\* raised no timeout (it ends only if a listing request itself raises), and
\* the remote branch has not been removed, no run deleted, no deployment
\* touched and the workspace not released.
C12_WaitsWhileNoRun ==
    ("push_branch" \in Range(calls) /\ runs = <<>> /\ discovered = NoRun)
        => /\ pc \in {"wait_run", "failed"}
           /\ run = NoRun
           /\ \A i \in DOMAIN calls : calls[i] \notin Teardown
           /\ branch_name \in remoteRefs
           /\ tmp_dir = "exists"

\* the outer loop has polled, was told of no run, and is still waiting
C12_Witness ==
    /\ pc = "wait_run"
    /\ polledEmpty
    /\ runs = <<>>
    /\ Last(calls) = "push_branch"

\* the run found by the outer loop, as the platform lists it now
DiscoveredCompleted ==
    \E i \in DOMAIN runs :
        runs[i].id = discovered.id /\ runs[i].status = "completed"

\* C13: once the platform has reported a run and that run has reached
\* "completed", _wait_for_workflow reaches COMPLETED (the log download); the
\* only other end is a request to the platform that itself raises.
C13_ReachesCompleted ==
    (pc = "wait_completion" /\ DiscoveredCompleted)
        ~> (pc \in {"download", "delete_run", "deployments", "deployment",
                    "cleanup", "done", "failed"})

\* C14: from the discovery on, the run whose status is checked, whose logs
\* are downloaded and which is deleted is the run the outer loop found, also
\* when the platform lists several runs or the listing changes between polls.
C14_SameRunThroughout ==
    pc \in {"wait_completion", "download", "delete_run", "deployments",
            "deployment", "cleanup", "done"}
        => /\ run.id = discovered.id
           /\ "delete_run" \in Range(calls)
                 => \A i \in DOMAIN runs : runs[i].id # discovered.id

\* C15: the remote ephemeral branch is removed at most once in a run(); it
\* is not removed while no run has been found, and the poll that first finds
\* a run, whatever the run's status, removes it at once, before any
\* completion-status check.
C15_BranchRemovedAtDiscovery ==
    /\ Count(calls, "remove_branch") <= 1
    /\ discovered = NoRun
          => /\ "remove_branch" \notin Range(calls)
             /\ "push_branch" \in Range(calls) => branch_name \in remoteRefs
    /\ (run # NoRun /\ pc # "failed")
          => /\ Count(calls, "remove_branch") = 1
             /\ branch_name \notin remoteRefs
    /\ completionPolls > 0 => "remove_branch" \in Range(calls)

\* a run found while still queued: the branch is gone before the first
\* completion poll
C15_Witness ==
    /\ pc = "wait_completion"
    /\ completionPolls = 0
    /\ discovered.status = "queued"
    /\ Last(calls) = "remove_branch"
    /\ branch_name \notin remoteRefs

\* position of the first occurrence of x in s (0 when absent)
Pos(s, x) ==
    IF x \in Range(s) THEN CHOOSE i \in DOMAIN s :
                              s[i] = x /\ \A j \in 1..(i - 1) : s[j] # x
                     ELSE 0
\* positions at which a deployment record is touched
DeploymentOps(s) ==
    {i \in DOMAIN s : s[i] \in {"deployment_inactive", "deployment_delete"}}

\* C16 as amended: when run() has returned, the remote branch was removed
\* first (when the run was found), then the completed run was deleted, then
\* the deployment records were listed, neutralized and deleted, and last the
\* workspace was released.
C16_TeardownOrder ==
    pc = "done"
        => /\ 0 < Pos(calls, "remove_branch")
           /\ Pos(calls, "remove_branch") < Pos(calls, "delete_run")
           /\ Pos(calls, "delete_run") < Pos(calls, "get_deployments")
           /\ \A i \in DeploymentOps(calls) : Pos(calls, "get_deployments") < i
           /\ Pos(calls, "cleanup") = Len(calls)
           /\ \A x \in {"remove_branch", "delete_run", "get_deployments", "cleanup"} :
                 Count(calls, x) = 1

\* run() has returned after neutralizing and deleting two deployment records
C16_Witness ==
    /\ pc = "done"
    /\ Count(calls, "deployment_delete") = 2
    /\ tmp_dir = "removed"

\* C16 as written: when run() has returned, the deployment records were
\* neutralized and deleted first, then the remote branch was removed, then
\* the completed run was deleted, then the workspace was released.
C16_DeploymentsFirst ==
    pc = "done"
        => /\ 0 < Pos(calls, "get_deployments")
           /\ Pos(calls, "get_deployments") < Pos(calls, "remove_branch")
           /\ \A i \in DeploymentOps(calls) : i < Pos(calls, "remove_branch")
           /\ Pos(calls, "remove_branch") < Pos(calls, "delete_run")
           /\ Pos(calls, "delete_run") < Pos(calls, "cleanup")

\* C17: in _delete_deployments every record is marked inactive before its
\* deletion is attempted, and a record on which the status update fails or
\* whose deletion is answered with a non-success response neither stops the
\* remaining records from being processed nor aborts the later teardown:
\* once the records are listed, run() does not end in an exception (other
\* than a DELETE request that got no answer at all).
C17_RecordFailureContained ==
    /\ \A i \in DOMAIN calls :
          calls[i] = "deployment_delete"
              => (i > 1 /\ calls[i - 1] = "deployment_inactive")
    /\ ("get_deployments" \in Range(calls) /\ Last(calls) # "delete_no_answer")
          => /\ pc # "failed"
             /\ pc = "done" => (pending = <<>> /\ tmp_dir = "removed")

\* the forward steps of run_operation, in the order of lines 73-92
StepOrder == <<"validate", "backup", "create_branch", "deploy", "monitor",
               "collect", "cleanup">>
\* the forward steps a call has started, in order: the step entries of its
\* log up to the handler's emergency cleanup
ForwardSteps(log) ==
    LET k == Pos(log, "emergency_cleanup")
        fwd == IF k = 0 THEN log ELSE SubSeq(log, 1, k - 1)
        steps == SelectSeq(fwd, LAMBDA e : e \in {"validate", "backup",
                      "create_branch", "deploy", "monitor", "collect",
                      "cleanup_operation"})
    IN  [i \in DOMAIN steps |-> StepOf(steps[i])]

\* C18: the forward steps of run_operation are started in the order
\* validate, backup, create branch, deploy, monitor, collect, cleanup, each
\* only after every earlier one has returned without error; the step that
\* raised is the last forward step started.
C18_ForwardStepsInOrder ==
    LET steps == ForwardSteps(gl_calls)
    IN  /\ Len(steps) <= Len(StepOrder)
        /\ \A i \in DOMAIN steps : steps[i] = StepOrder[i]
        /\ error # "none" => (steps # <<>> /\ Last(steps) = error)
        /\ (error = "none" /\ steps # <<>> /\ gl_pc \notin {"idle", "return"})
              => gl_pc = StepOrder[Len(steps) + 1]

\* _deploy_pipeline raised after three steps had returned: nothing of
\* monitor or collect was started
C18_Witness ==
    /\ gl_pc = "idle"
    /\ error = "deploy"
    /\ ForwardSteps(gl_calls) = <<"validate", "backup", "create_branch", "deploy">>
    /\ result.status = "failed"

\* the targets that are not numeric and that no listing of projects holds
UnlistedTargets ==
    {t \in Targets \ NumericTargets :
        \A l \in Listings : \A i \in DOMAIN l : l[i].path_with_namespace # t}

\* C19: in any sequence of run_operation calls on one GitLabRunner, an
\* operation whose target is not numeric and matches no listed project's
\* path_with_namespace makes no get_project request, and once
\* _validate_target has run the operation has failed in it (not found).
C19_UnlistedTargetNotFound ==
    (target \in UnlistedTargets /\ "validate" \in Range(gl_calls))
        => /\ "get_project" \notin Range(gl_calls)
           /\ error = "validate"
           /\ Range(gl_calls) \cap {"backup", "create_branch", "deploy"} = {}

\* C20: when the clone holds no .github/workflows, _push_workflow does not
\* fail on removing its entries: with a payload that can be read, the
\* directory is created and the payload copied in and staged whatever
\* happens afterwards, and a push that reaches the remote publishes it.
C20_AbsentDirectoryIsNoOp ==
    ("clone" \in Range(calls) /\ priorFiles = {} /\ workflow.kind # "unreadable"
       /\ pc # "push")
        => /\ workTree = {workflow.name}
           /\ index = {workflow.name}
           /\ pc # "failed" => "push_branch" \in Range(calls)

\* C21: when _clone_repository has created the temporary directory and the
\* clone then fails, the workspace is released before run() ends with the
\* failure: no workspace exists afterwards.
C21_CloneFailureReleasesWorkspace ==
    (pc = "failed" /\ Last(calls) = "mkdtemp")
        => (tmp_dir = "removed" /\ priorFiles = {} /\ workTree = {})

\* the entry of an archive that comes first among those named 0_<job>.txt,
\* as a set: empty when there is none
FirstMatchOf(archive) ==
    LET idx == {i \in DOMAIN archive :
                   archive[i].ord = 0 /\ archive[i].ext = "txt"}
    IN  IF idx = {} THEN {}
        ELSE {archive[CHOOSE i \in idx : \A j \in idx : i <= j]}

\* C22: _download_run_logs writes at most one local file in a run(); what
\* it writes is the first entry of the archive, in archive order, that
\* matches the first-job pattern; with an archive in which no entry matches
\* it writes nothing and returns, and run.delete() is the next statement.
C22_WritesFirstMatchOnly ==
    /\ [](/\ Cardinality(logFiles) <= 1
          /\ Count(calls, "write_log") <= 1
          /\ "write_log" \in Range(calls)
                => (fetched /\ logFiles = FirstMatchOf(lastArchive))
          /\ (fetched /\ pc \notin {"download", "failed"})
                => logFiles = FirstMatchOf(lastArchive))
    /\ [][(pc = "download" /\ fetched' /\ FirstMatchOf(lastArchive') = {})
            => (pc' = "delete_run" /\ logFiles' = {})]_vars

\* an archive with two matching entries: the first was written, the second
\* discarded, and the run was deleted afterwards
C22_Witness ==
    /\ Len(lastArchive) = 2
    /\ FirstMatchOf(<<lastArchive[2]>>) # {}
    /\ lastArchive[1] # lastArchive[2]
    /\ logFiles = {lastArchive[1]}
    /\ "delete_run" \in Range(calls)

\* C23: in a run_operation called with cleanup=False, _cleanup_operation is
\* never invoked, whether the operation succeeds or a step fails.
C23_NoCleanupWhenDisabled ==
    (operation_id > 0 /\ ~cleanup)
        => "cleanup_operation" \notin Range(gl_calls)

\* C24: in a run() the remote run is deleted at most once, and only the run
\* whose status the poll before saw as "completed", after the log download
\* for it has returned; until then, and when the download fails, every run
\* the platform created is still there.
C24_RunDeletedAfterDownload ==
    /\ Count(calls, "delete_run") <= 1
    /\ "delete_run" \in Range(calls)
          => /\ run.status = "completed"
             /\ \A i \in DOMAIN calls :
                   calls[i] = "delete_run"
                      => (i > 1 /\ calls[i - 1] \in {"download_logs", "write_log"})
             /\ \A i \in DOMAIN runs : runs[i].id # run.id
             /\ pc \notin {"login", "clone", "push", "wait_run",
                            "wait_completion", "download", "delete_run"}
    /\ "delete_run" \notin Range(calls)
          => {runs[i].id : i \in DOMAIN runs} = 1..Len(runs)
    /\ pc = "delete_run" => Last(calls) \in {"download_logs", "write_log"}

\* the completed run was deleted after its logs were written, and another
\* run of the branch is still listed
C24_Witness ==
    /\ pc = "deployments"
    /\ Last(calls) = "delete_run"
    /\ "write_log" \in Range(calls)
    /\ Len(runs) = 1

\* C25: after any sequence of run_reconnaissance calls on one GitLabRecon,
\* the report the last call generated has suitable_targets <= total_projects
\* and its targets are, one each, the currently discovered projects that
\* have an id, with nothing left over from an earlier call.
C25_ReportMatchesDiscovery ==
    returned = "report"
        => /\ report.suitable_targets <= report.total_projects
           /\ report.total_projects = Len(recon_projects)
           /\ LET withId == SelectSeq(recon_projects, LAMBDA p : p.id # <<>>)
              IN  report.targets = [i \in DOMAIN withId |-> withId[i].id]
====
